---- MODULE Spec2Model ----
(***************************************************************************)
(* A model of the posture monitor: the alert and break timers and the      *)
(* session logger of features.py, the monitoring loop of main.py and the   *)
(* single-file monitoring loop of posture_test_initial_work.py.            *)
(*                                                                         *)
(* Time is the wall clock in whole seconds.  Every handler is one action;  *)
(* the clock reads a handler makes (time.time(), datetime.now()) are       *)
(* non-decreasing values, a read may come Jitter seconds after the one     *)
(* before it.                                                              *)
(***************************************************************************)
EXTENDS Integers, Sequences, FiniteSets, TLC

VARIABLES
    now,        \* the wall clock after the last handler returned
    alerts,     \* AlertManager: bad_start, last_alert, alert_count
    breaks,     \* BreakReminder: last_break, break_count
    logger,     \* SessionLogger: log, session_start, last_record
    notifier,   \* notification.notify requests received: alert, brk
    files,      \* the session files on disk: name, header, rows
    calls,      \* number of handler calls made so far
    run,        \* main.py: position in main, camera, baseline, frames read
    mono,       \* posture_test_initial_work.py: the locals of its main
    calib,      \* calibrate_user: its position, camera, samples and result
    analyzer,   \* PostureAnalyzer: baseline
    pose,       \* the landmarks of the frame in hand: index -> point
    script,     \* the scripted run: the tick given GOOD, 0 for none
    obs,        \* what the last handler call did (its inputs and outcome)
    hist        \* history: when alerts and reminders fired, last non-BAD check

vars == <<now, alerts, breaks, logger, notifier, files, run, mono, calib, analyzer,
          pose, calls, script, obs, hist>>

-----------------------------------------------------------------------------
(* Bounds of the model *)

\* the wall clock when the objects are constructed
StartTime == 1000
\* handler calls per behaviour of the component specification
MaxCalls == 4
\* ticks of a scripted run at one tick per second
MaxTicks == 500
\* frames a monitoring loop reads per behaviour
MaxFrames == 3
\* angles a calibration collects per behaviour
MaxSamples == 51

\* seconds that may pass between two clock reads inside one handler
Jitter == {0, 1}
\* the delays before the three later clock reads of one AlertManager.check:
\* at most one of them is late
Jitters == {j \in [1..3 -> Jitter] : j[1] + j[2] + j[3] <= 1}
\* seconds that may pass between two calls of AlertManager.check
Steps == {0, 1, 179, 180, 299, 300}
\* seconds that may pass between two calls of BreakReminder.check
BreakSteps == {0, 1, 1799, 1800}
\* seconds that may pass before an iteration of main_loop starts
LoopSteps == {0, 1, 5, 1800}
\* seconds that may pass before an iteration of the single-file loop starts
MonoSteps == {0, 6, 181, 1801}

\* seconds that may pass between two calls of SessionLogger.record
LogSteps == {1, 5}
\* seconds that may pass before a query of the SessionLogger
QuerySteps == {0, 1}
\* the delays before the two later clock reads of one SessionLogger.record
RecordJitters == {<<0, 0>>, <<1, 0>>, <<0, 1>>}

\* angles are whole thousandths of a degree
Deg(n) == n * 1000
\* the angles a frame may show
Angles == {Deg(150), Deg(160), Deg(165), Deg(170)}
\* the angles given to SessionLogger.record when it is called directly
LogAngles == {Deg(165) + 4}
\* the angles a frame of the single-file loop may show
MonoAngles == {Deg(150), Deg(165), Deg(175)}

-----------------------------------------------------------------------------
(* configure_setting.py *)

BAD_DURATION == 180
ALERT_COOLDOWN == 300
BREAK_INTERVAL == 1800
RECORD_EVERY == 5
GOOD_ANGLE == 170
FAIR_ANGLE == 160

\* the names the configuration module defines
ConfigNames ==
    {"CAMERA_WIDTH", "CAMERA_HEIGHT", "MIN_FPS", "MODEL_COMPLEXITY",
     "DETECTION_CONFIDENCE", "GOOD_ANGLE", "FAIR_ANGLE", "BAD_DURATION",
     "ALERT_COOLDOWN", "BREAK_INTERVAL", "RECORD_EVERY", "COLOR_GOOD",
     "COLOR_FAIR", "COLOR_BAD", "DATA_DIR", "SESSIONS_DIR"}

\* config.<name> evaluates; otherwise it raises AttributeError
ConfigDefines(name) == name \in ConfigNames

-----------------------------------------------------------------------------
(* Optional values: None is the empty sequence, Some(x) the sequence <<x>> *)

None == <<>>
Some(x) == <<x>>

Statuses == {"GOOD", "FAIR", "BAD", "UNKNOWN"}

-----------------------------------------------------------------------------
(* features.py: AlertManager *)

AlertManager_init == [bad_start |-> None, last_alert |-> None, alert_count |-> 0]

\* mutant: the duration compared in minutes, not seconds
DurationReached_Minutes(duration) == duration >= BAD_DURATION \div 60

\* mutant: a strict comparison, as in the single-file variant
DurationReached_Strict(duration) == duration > BAD_DURATION

\* duration >= config.BAD_DURATION
DurationReached(duration) == duration >= BAD_DURATION

\* mutant: the cooldown compared against the wrong constant
CooldownOver_WrongConstant(last_alert, t) ==
    \/ last_alert = None
    \/ t - last_alert[1] >= BAD_DURATION

\* self.last_alert is None or (time.time() - self.last_alert) >= config.ALERT_COOLDOWN
CooldownOver(last_alert, t) ==
    \/ last_alert = None
    \/ t - last_alert[1] >= ALERT_COOLDOWN

\* mutant: no try/except around the dispatch, a failure leaves the method
AlertManager_send_notification_Unguarded(duration, ok) ==
    IF ~ConfigDefines("ALERT_TITLE")
    THEN [sent |-> 0, outcome |-> "failed", raised |-> TRUE]
    ELSE [sent |-> 1, outcome |-> IF ok THEN "sent" ELSE "failed", raised |-> ~ok]

\* _send_notification: the keyword arguments are evaluated inside the try, so a
\* name the configuration lacks raises there and notify is never called.
\* ok: whether notification.notify returns (TRUE) or raises an Exception.
\* sent: notify requests that reached the collaborator; outcome: "sent" or
\* "failed" (the except branch ran); raised: an error left the method.
AlertManager_send_notification(duration, ok) ==
    IF ~ConfigDefines("ALERT_TITLE")
    THEN [sent |-> 0, outcome |-> "failed", raised |-> FALSE]
    ELSE [sent |-> 1, outcome |-> IF ok THEN "sent" ELSE "failed", raised |-> FALSE]

\* mutant: the else branch missing, the timer keeps running
AlertManager_reset_Keep(am) == am

\* the else branch of check: posture improved, reset timer
AlertManager_reset(am) == [am EXCEPT !.bad_start = None]

\* the bookkeeping of a firing alert, made at clock t
\* the bookkeeping of a firing that also restarts the bad-posture timer
AlertManager_fire_ResetTimer(am, t) ==
    [am EXCEPT !.bad_start = None, !.last_alert = Some(t), !.alert_count = @ + 1]

\* the bookkeeping of a firing that leaves the count alone
AlertManager_fire_NoCount(am, t) ==
    [am EXCEPT !.last_alert = Some(t)]

\* lines 49-50: the bookkeeping of a firing
AlertManager_fire(am, t) ==
    [am EXCEPT !.last_alert = Some(t), !.alert_count = @ + 1]

\* check(status), entered at clock t; j[1..3] are the seconds that pass before
\* the clock reads of lines 39, 45 and 49.  Yields the manager after the call,
\* whether the alert branch ran, and the clock at return.
AlertManager_check(am, status, t, j, ok) ==
    LET bs == IF am.bad_start = None THEN t ELSE am.bad_start[1]
        started == [am EXCEPT !.bad_start = Some(bs)]
        r2 == t + j[1]
        duration == r2 - bs
        r3 == r2 + j[2]
        r4 == r3 + j[3]
        sn == AlertManager_send_notification(duration, ok)
        quiet == [fired |-> FALSE, sent |-> 0, outcome |-> "none",
                  raised |-> FALSE, duration |-> 0, t_fire |-> t]
    IN  IF status = "BAD"
        THEN IF DurationReached(duration) /\ CooldownOver(am.last_alert, r3)
             THEN [fired |-> TRUE, sent |-> sn.sent, outcome |-> sn.outcome,
                   raised |-> sn.raised, duration |-> duration, t_fire |-> r3,
                   am |-> IF sn.raised THEN started
                          ELSE AlertManager_fire(started, r4),
                   clock |-> r4]
             ELSE quiet @@ [am |-> started, clock |-> r3]
        ELSE quiet @@ [am |-> AlertManager_reset(am), clock |-> t]

-----------------------------------------------------------------------------
(* features.py: BreakReminder *)

BreakReminder_init(t) == [last_break |-> t, break_count |-> 0]

\* mutant: a strict comparison, as in the single-file variant
BreakDue_Strict(last_break, t) == t - last_break > BREAK_INTERVAL

\* time.time() - self.last_break >= config.BREAK_INTERVAL
BreakDue(last_break, t) == t - last_break >= BREAK_INTERVAL

\* _send_reminder: the title is a literal, so notify is always called
BreakReminder_send_reminder(ok) ==
    [sent |-> 1, outcome |-> IF ok THEN "sent" ELSE "failed", raised |-> FALSE]

\* check(), entered at clock t; d seconds pass before the clock read of line 95
BreakReminder_check(br, t, d, ok) ==
    LET sr == BreakReminder_send_reminder(ok)
    IN  IF BreakDue(br.last_break, t)
        THEN IF sr.raised
             THEN [reminded |-> TRUE, sent |-> sr.sent, outcome |-> sr.outcome,
                   raised |-> TRUE, br |-> br, clock |-> t]
             ELSE [reminded |-> TRUE, sent |-> sr.sent, outcome |-> sr.outcome,
                   raised |-> FALSE,
                   br |-> [last_break |-> t + d, break_count |-> br.break_count + 1],
                   clock |-> t + d]
        ELSE [reminded |-> FALSE, sent |-> 0, outcome |-> "none", raised |-> FALSE,
              br |-> br, clock |-> t]

-----------------------------------------------------------------------------
(* features.py: SessionLogger *)

SessionLogger_init(t) == [log |-> <<>>, session_start |-> t, last_record |-> t]

\* round(angle, 2) of an angle in thousandths of a degree
Round2(angle) == ((angle + 5) \div 10) * 10

\* line 142 with the interval left out: every call is due
RecordDue_Always(last_record, t) == TRUE

\* line 142: the interval since the last record has passed
RecordDue(last_record, t) == t - last_record >= RECORD_EVERY

\* record(status, angle), entered at clock t; j[1], j[2] are the seconds that
\* pass before the clock reads of lines 144 and 148
SessionLogger_record(lg, status, angle, t, j) ==
    IF RecordDue(lg.last_record, t)
    THEN [lg |-> [lg EXCEPT
                    !.log = Append(@, [timestamp |-> t + j[1], status |-> status,
                                       angle |-> Round2(angle)]),
                    !.last_record = t + j[1] + j[2]],
          recorded |-> TRUE, clock |-> t + j[1] + j[2]]
    ELSE [lg |-> lg, recorded |-> FALSE, clock |-> t]

\* sum(1 for x in self.log if x['status'] == s)
CountStatus(log, s) == Cardinality({i \in 1..Len(log) : log[i].status = s})

\* round() of the quotient n / d to a whole number, ties to the even one
RoundHalfEven(n, d) ==
    LET q == n \div d
        r == n % d
    IN  IF 2 * r < d THEN q
        ELSE IF 2 * r > d THEN q + 1
        ELSE IF q % 2 = 0 THEN q ELSE q + 1

\* get_score with FAIR weighted 50 instead of 60
SessionLogger_get_score_FairHalf(lg) ==
    IF lg.log = <<>> THEN 0
    ELSE RoundHalfEven(10 * (CountStatus(lg.log, "GOOD") * 100
                             + CountStatus(lg.log, "FAIR") * 50
                             + CountStatus(lg.log, "BAD") * 20), Len(lg.log))

\* get_score(): the score in tenths of a point
SessionLogger_get_score(lg) ==
    IF lg.log = <<>> THEN 0
    ELSE RoundHalfEven(10 * (CountStatus(lg.log, "GOOD") * 100
                             + CountStatus(lg.log, "FAIR") * 60
                             + CountStatus(lg.log, "BAD") * 20), Len(lg.log))

\* round(count / total * 100, 1): a percentage in tenths of a percent
Percent(count, total) == RoundHalfEven(count * 1000, total)

\* get_summary with the duration taken backwards
SessionLogger_get_summary_Backwards(lg, t) ==
    IF lg.log = <<>>
    THEN [duration |-> 0, data_points |-> 0, score |-> 0,
          good_percent |-> 0, fair_percent |-> 0, bad_percent |-> 0]
    ELSE [duration |-> lg.session_start - t,
          data_points |-> Len(lg.log),
          score |-> SessionLogger_get_score(lg),
          good_percent |-> Percent(CountStatus(lg.log, "GOOD"), Len(lg.log)),
          fair_percent |-> Percent(CountStatus(lg.log, "FAIR"), Len(lg.log)),
          bad_percent |-> Percent(CountStatus(lg.log, "BAD"), Len(lg.log)),
          good_count |-> CountStatus(lg.log, "GOOD"),
          fair_count |-> CountStatus(lg.log, "FAIR"),
          bad_count |-> CountStatus(lg.log, "BAD")]

\* get_summary(), its clock read (line 196) made at t: the dictionary it
\* returns, with the keys it has
SessionLogger_get_summary(lg, t) ==
    IF lg.log = <<>>
    THEN [duration |-> 0, data_points |-> 0, score |-> 0,
          good_percent |-> 0, fair_percent |-> 0, bad_percent |-> 0]
    ELSE [duration |-> t - lg.session_start,
          data_points |-> Len(lg.log),
          score |-> SessionLogger_get_score(lg),
          good_percent |-> Percent(CountStatus(lg.log, "GOOD"), Len(lg.log)),
          fair_percent |-> Percent(CountStatus(lg.log, "FAIR"), Len(lg.log)),
          bad_percent |-> Percent(CountStatus(lg.log, "BAD"), Len(lg.log)),
          good_count |-> CountStatus(lg.log, "GOOD"),
          fair_count |-> CountStatus(lg.log, "FAIR"),
          bad_count |-> CountStatus(lg.log, "BAD")]

\* the ways open() and the writer of save can go: the file is written, open
\* raises and leaves the disk alone, or the writer raises after open has
\* truncated the file
WriteOutcomes == {"ok", "open_failed", "write_failed"}

\* the name save gives the file: session_<session_start to the second>.csv
SessionFileName(lg) == lg.session_start

\* the disk after open(name, 'w') and the writes that followed
WriteFile(fs, name, header, rows) ==
    {f \in fs : f.name # name} \cup {[name |-> name, header |-> header, rows |-> rows]}

\* the keys of the summary that the prints of lines 238-244 read
SummaryKeysPrinted ==
    {"duration", "data_points", "score", "good_count", "good_percent",
     "fair_count", "fair_percent", "bad_count", "bad_percent"}

\* save with a file written for an empty log too
SessionLogger_save_EmptyFile(lg, fs, t, wr) ==
    [ret |-> Some(SessionFileName(lg)),
     files |-> WriteFile(fs, SessionFileName(lg), TRUE, lg.log),
     message |-> "saved", summary_printed |-> FALSE, raised |-> FALSE, clock |-> t]

\* save(), entered at clock t with the disk fs; wr is how the write goes.
\* ret is the value returned, message what is printed last, summary_printed
\* whether the session summary was printed, raised whether an exception
\* leaves save.
SessionLogger_save(lg, fs, t, wr) ==
    IF lg.log = <<>>
    THEN [ret |-> None, files |-> fs, message |-> "no_data",
          summary_printed |-> FALSE, raised |-> FALSE, clock |-> t]
    ELSE IF wr = "open_failed"
    THEN [ret |-> None, files |-> fs, message |-> "failed",
          summary_printed |-> FALSE, raised |-> FALSE, clock |-> t]
    ELSE IF wr = "write_failed"
    THEN [ret |-> None, files |-> WriteFile(fs, SessionFileName(lg), FALSE, <<>>),
          message |-> "failed", summary_printed |-> FALSE, raised |-> FALSE,
          clock |-> t]
    ELSE LET written == WriteFile(fs, SessionFileName(lg), TRUE, lg.log)
             summary == SessionLogger_get_summary(lg, t)
         IN  IF SummaryKeysPrinted \subseteq DOMAIN summary
             THEN [ret |-> Some(SessionFileName(lg)), files |-> written,
                   message |-> "saved", summary_printed |-> TRUE,
                   raised |-> FALSE, clock |-> t]
             ELSE [ret |-> None, files |-> written, message |-> "failed",
                   summary_printed |-> FALSE, raised |-> FALSE, clock |-> t]

-----------------------------------------------------------------------------
(* posture_core.py: PostureAnalyzer *)

\* image coordinates are whole hundred-thousandths of the frame size
CoordX == {0, 100000, 200000}
CoordY == {0, 17633, 36397}
CoordZ == {0, 50000}
Points == [x : CoordX, y : CoordY, z : CoordZ]

\* math.atan2(dy, dx) in thousandths of a degree for dx > 0, dy > 0, on the
\* coordinate differences of the grid
AtanTable(dy, dx) ==
    CASE dy = 17633 /\ dx = 100000 -> 10000
      [] dy = 17633 /\ dx = 200000 -> 5038
      [] dy = 18764 /\ dx = 100000 -> 10627
      [] dy = 18764 /\ dx = 200000 -> 5360
      [] dy = 36397 /\ dx = 100000 -> 20000
      [] dy = 36397 /\ dx = 200000 -> 10314

Abs(n) == IF n < 0 THEN -n ELSE n

\* math.atan2(dy, dx) times 180 / pi, in thousandths of a degree, in
\* (-180, 180]; atan2(0, 0) is 0
Atan2Deg(dy, dx) ==
    IF dy = 0 THEN (IF dx >= 0 THEN 0 ELSE Deg(180))
    ELSE IF dx = 0 THEN (IF dy > 0 THEN Deg(90) ELSE -Deg(90))
    ELSE LET q == AtanTable(Abs(dy), Abs(dx))
         IN  IF dx > 0 THEN (IF dy > 0 THEN q ELSE -q)
             ELSE (IF dy > 0 THEN Deg(180) - q ELSE q - Deg(180))

\* _calculate_angle without the fold of lines 125-126
PostureAnalyzer_calculate_angle_NoFold(a, b, c) ==
    Abs(Atan2Deg(c.y - b.y, c.x - b.x) - Atan2Deg(a.y - b.y, a.x - b.x))

\* _calculate_angle(a, b, c): the angle at b, from the x and y of the points
PostureAnalyzer_calculate_angle(a, b, c) ==
    LET angle == Abs(Atan2Deg(c.y - b.y, c.x - b.x) - Atan2Deg(a.y - b.y, a.x - b.x))
    IN  IF angle > Deg(180) THEN Deg(360) - angle ELSE angle

\* the classification with the strict comparisons of check_posture
PostureAnalyzer_analyze_Strict(baseline, angle) ==
    LET good_threshold == IF baseline # None
                          THEN baseline[1].good_angle - Deg(10)
                          ELSE Deg(GOOD_ANGLE)
        fair_threshold == IF baseline # None
                          THEN baseline[1].good_angle - Deg(20)
                          ELSE Deg(FAIR_ANGLE)
    IN  IF angle > good_threshold THEN "GOOD"
        ELSE IF angle > fair_threshold THEN "FAIR"
        ELSE "BAD"

\* the classification of analyze: the thresholds come from the baseline when
\* there is one, from the configuration otherwise
PostureAnalyzer_analyze(baseline, angle) ==
    LET good_threshold == IF baseline # None
                          THEN baseline[1].good_angle - Deg(10)
                          ELSE Deg(GOOD_ANGLE)
        fair_threshold == IF baseline # None
                          THEN baseline[1].good_angle - Deg(20)
                          ELSE Deg(FAIR_ANGLE)
    IN  IF angle >= good_threshold THEN "GOOD"
        ELSE IF angle >= fair_threshold THEN "FAIR"
        ELSE "BAD"

\* analyze(pose_landmarks): landmarks[17], landmarks[11] and landmarks[23]
\* are read (a missing one raises IndexError, nothing catches it), the angle
\* is computed and classified; what is returned, or that it raised
PostureAnalyzer_analyze_landmarks(baseline, landmarks) ==
    IF ~({17, 11, 23} \subseteq DOMAIN landmarks)
    THEN [raised |-> TRUE, status |-> "none", angle |-> 0]
    ELSE LET angle == PostureAnalyzer_calculate_angle(landmarks[17], landmarks[11],
                                                      landmarks[23])
         IN  [raised |-> FALSE, status |-> PostureAnalyzer_analyze(baseline, angle),
              angle |-> angle]

-----------------------------------------------------------------------------
(* The components, called directly at non-decreasing times *)

NoObs == [op |-> "init", status |-> "UNKNOWN", t |-> StartTime, fired |-> FALSE,
          reminded |-> FALSE, outcome |-> "none", raised |-> FALSE,
          duration |-> 0, t_fire |-> StartTime,
          detected |-> FALSE, alert_checked |-> FALSE, break_checked |-> FALSE,
          recorded |-> FALSE, exit |-> "none",
          angle |-> 0, score |-> 0, summary |-> None, ret |-> None, message |-> "none",
          summary_printed |-> FALSE, wr |-> "ok", released |-> FALSE,
          save_called |-> FALSE]

\* no program is running: the components are called directly
NoRun == [pc |-> "none", cap |-> "none", baseline |-> None, frames |-> 0,
          saved |-> FALSE, persisted |-> [kind |-> "absent"]]

\* the single-file program is not running
NoMono == [pc |-> "none", bad_posture_start |-> None, last_alert_time |-> None,
           last_log_time |-> StartTime, break_reminder_time |-> StartTime,
           session_log |-> <<>>, frames |-> 0]

\* records: the last two calls of record (clock, appended or not);
\* prev_summary, last_summary: the results of the last two get_summary calls
\* made since the last call of record
NoHist == [fires |-> <<>>, reminders |-> <<>>, nonbad_at |-> StartTime,
           first_bad |-> None, records |-> <<>>, prev_summary |-> None,
           last_summary |-> None]

\* calibrate_user is not running.  samples, sum, min_angle and max_angle are
\* len, sum, min and max of the list angles; taken counts the samples of each
\* angle; baseline_file is the content of user_baseline.json, prior_file what
\* it was when calibrate_user was called
NoCalib == [pc |-> "none", cap |-> "none", duration |-> 0, start_time |-> StartTime,
            samples |-> 0, sum |-> 0, min_angle |-> 0, max_angle |-> 0,
            taken |-> <<>>, result |-> None, baseline_file |-> None,
            prior_file |-> None]

\* no PostureAnalyzer is in use on its own, no frame is in hand
NoAnalyzer == [baseline |-> None]
NoPose == <<>>

\* every object freshly constructed at StartTime
FreshAll(r, m, sc, c, an, ps) ==
    /\ calib = c
    /\ analyzer = an
    /\ pose = ps
    /\ now = StartTime
    /\ alerts = AlertManager_init
    /\ breaks = BreakReminder_init(StartTime)
    /\ logger = SessionLogger_init(StartTime)
    /\ notifier = [alert |-> 0, brk |-> 0]
    /\ files = {}
    /\ run = r
    /\ mono = m
    /\ calls = 0
    /\ script = sc
    /\ obs = NoObs
    /\ hist = NoHist

FreshWith(r, m, sc, c) == FreshAll(r, m, sc, c, NoAnalyzer, NoPose)

Fresh(r, m, sc) == FreshWith(r, m, sc, NoCalib)

Init == Fresh(NoRun, NoMono, 0)

NoJitter == [i \in 1..3 |-> 0]

\* alerts.check(status) entered at clock t, with the history kept beside it
DoAlertCheck(status, t, j, ok) ==
    LET r == AlertManager_check(alerts, status, t, j, ok)
    IN  /\ calls' = calls + 1
        /\ alerts' = r.am
        /\ now' = r.clock
        /\ notifier' = [notifier EXCEPT !.alert = @ + r.sent]
        /\ obs' = [NoObs EXCEPT !.op = "alert", !.status = status, !.t = t,
                                !.fired = r.fired, !.outcome = r.outcome,
                                !.raised = r.raised, !.duration = r.duration,
                                !.t_fire = r.t_fire]
        /\ hist' = [hist EXCEPT
               !.fires = IF r.fired THEN Append(@, r.t_fire) ELSE @,
               !.nonbad_at = IF status = "BAD" THEN @ ELSE t,
               !.first_bad = IF status # "BAD" THEN None
                             ELSE IF @ = None THEN Some(t) ELSE @]
        /\ UNCHANGED <<breaks, logger, files, run, mono, script, analyzer, pose, calib>>

\* alerts.check("BAD"), step seconds after the previous call returned
AlertCheckBad ==
    \E step \in Steps, j \in Jitters, ok \in BOOLEAN :
        /\ calls < MaxCalls
        /\ DoAlertCheck("BAD", now + step, j, ok)

\* alerts.check(status) with another status: it reads no clock and sends nothing
AlertCheckOther ==
    \E step \in Steps, status \in Statuses \ {"BAD"} :
        /\ calls < MaxCalls
        /\ DoAlertCheck(status, now + step, NoJitter, TRUE)

\* breaks.check(), step seconds after the previous call returned
BreakCheck ==
    \E step \in BreakSteps, d \in Jitter, ok \in BOOLEAN :
        LET t == now + step
            r == BreakReminder_check(breaks, t, d, ok)
        IN  /\ calls < MaxCalls
            /\ calls' = calls + 1
            /\ breaks' = r.br
            /\ now' = r.clock
            /\ notifier' = [notifier EXCEPT !.brk = @ + r.sent]
            /\ obs' = [NoObs EXCEPT !.op = "break", !.t = t, !.reminded = r.reminded,
                                    !.outcome = r.outcome, !.raised = r.raised]
            /\ hist' = [hist EXCEPT
                   !.reminders = IF r.reminded THEN Append(@, t) ELSE @]
            /\ UNCHANGED <<alerts, logger, files, run, mono, script, analyzer, pose, calib>>

Next == AlertCheckBad \/ AlertCheckOther

Spec == Init /\ [][Next]_vars

NextBreak == BreakCheck

SpecBreak == Init /\ [][NextBreak]_vars

\* the statuses record is documented to take
LogStatuses == {"GOOD", "FAIR", "BAD"}

\* logger.record(status, angle), step seconds after the previous call returned
LogRecord ==
    \E step \in LogSteps, status \in LogStatuses, angle \in LogAngles,
       j \in RecordJitters :
        LET t == now + step
            r == SessionLogger_record(logger, status, angle, t, j)
            call == [t |-> t, recorded |-> r.recorded]
        IN  /\ calls < MaxCalls
            /\ calls' = calls + 1
            /\ logger' = r.lg
            /\ now' = r.clock
            /\ obs' = [NoObs EXCEPT !.op = "record", !.status = status, !.t = t,
                                    !.recorded = r.recorded]
            /\ hist' = [hist EXCEPT
                   !.records = IF Len(@) = 2 THEN <<@[2], call>> ELSE Append(@, call),
                   !.prev_summary = None,
                   !.last_summary = None]
            /\ UNCHANGED <<alerts, breaks, notifier, files, run, mono, script, analyzer, pose, calib>>

\* logger.get_score()
LogGetScore ==
    /\ calls < MaxCalls
    /\ calls' = calls + 1
    /\ obs' = [NoObs EXCEPT !.op = "get_score", !.t = now,
                            !.score = SessionLogger_get_score(logger)]
    /\ UNCHANGED <<now, alerts, breaks, logger, notifier, files, run, mono, script, analyzer, pose, calib,
                   hist>>

\* logger.get_summary(), step seconds after the previous call returned
LogGetSummary ==
    \E step \in QuerySteps :
        LET t == now + step
            summary == SessionLogger_get_summary(logger, t)
        IN  /\ calls < MaxCalls
            /\ calls' = calls + 1
            /\ now' = t
            /\ obs' = [NoObs EXCEPT !.op = "get_summary", !.t = t,
                                    !.summary = Some(summary)]
            /\ hist' = [hist EXCEPT !.prev_summary = hist.last_summary,
                                    !.last_summary = Some(summary)]
            /\ UNCHANGED <<alerts, breaks, logger, notifier, files, run, mono, script, analyzer, pose, calib>>

\* logger.save()
LogSave ==
    \E wr \in WriteOutcomes :
        LET r == SessionLogger_save(logger, files, now, wr)
        IN  /\ calls < MaxCalls
            /\ calls' = calls + 1
            /\ files' = r.files
            /\ now' = r.clock
            /\ obs' = [NoObs EXCEPT !.op = "save", !.t = now, !.ret = r.ret,
                                    !.message = r.message, !.wr = wr,
                                    !.summary_printed = r.summary_printed,
                                    !.raised = r.raised, !.save_called = TRUE]
            /\ UNCHANGED <<alerts, breaks, logger, notifier, run, mono, script, analyzer, pose, calib, hist>>

NextLog == LogRecord \/ LogGetScore \/ LogGetSummary \/ LogSave

SpecLog == Init /\ [][NextLog]_vars

-----------------------------------------------------------------------------
(* main.py: main_loop and cleanup_and_save *)

\* the baselines load_baseline may have returned
Baselines == {None, Some([good_angle |-> Deg(175), tolerance |-> Deg(10)])}

\* what user_baseline.json may be when the program starts: absent; present
\* but not readable (open or the read raises an OSError or a decoding
\* error); not JSON; JSON for a value that is false in a test (null, 0, [],
\* {}); JSON for a value that is not a dictionary (a number, a list); JSON
\* for a dictionary without the key good_angle; a baseline
PersistedFiles ==
    {[kind |-> k] : k \in {"absent", "unreadable", "corrupt", "falsy",
                           "not_record", "no_good_angle"}}
    \cup {[kind |-> "baseline", value |-> b[1]] : b \in Baselines \ {None}}

\* load_baseline(): FileNotFoundError and json.JSONDecodeError are caught,
\* any other exception leaves it; what json.load gives is returned as it is.
\* truthy: the value returned counts as true in `if baseline:`; record: it is
\* a dictionary with the key good_angle
load_baseline(file) ==
    CASE file.kind \in {"absent", "corrupt"} ->
            [raised |-> FALSE, truthy |-> FALSE, record |-> FALSE, baseline |-> None]
      [] file.kind = "unreadable" ->
            [raised |-> TRUE, truthy |-> FALSE, record |-> FALSE, baseline |-> None]
      [] file.kind = "falsy" ->
            [raised |-> FALSE, truthy |-> FALSE, record |-> FALSE, baseline |-> None]
      [] file.kind \in {"not_record", "no_good_angle"} ->
            [raised |-> FALSE, truthy |-> TRUE, record |-> FALSE, baseline |-> None]
      [] file.kind = "baseline" ->
            [raised |-> FALSE, truthy |-> TRUE, record |-> TRUE,
             baseline |-> Some(file.value)]

\* initialize_system: load_baseline is called outside the try; a value that
\* counts as true is formatted with baseline['good_angle'] (line 32), which
\* raises when it is no such record; failed: an exception leaves
\* initialize_system
initialize_system(file) ==
    LET r == load_baseline(file)
    IN  [failed |-> r.raised \/ (r.truthy /\ ~r.record), baseline |-> r.baseline]

\* display_ui returns (TRUE) or raises AttributeError (FALSE): every colour it
\* names must be an attribute of the configuration, and the FPS text of line
\* 134 is drawn with config.COLOR_TEXT on every call
display_ui(detected, status) ==
    /\ detected => ConfigDefines(IF status = "GOOD" THEN "COLOR_GOOD"
                                 ELSE IF status = "FAIR" THEN "COLOR_FAIR"
                                 ELSE "COLOR_BAD")
    /\ ~detected => ConfigDefines("COLOR_BAD")
    /\ ConfigDefines("COLOR_TEXT")

\* lines 174-196 with logger.record called outside the if: a tick without a
\* person records its default status and angle
main_loop_process_RecordAlways(am, br, lg, baseline, t, detected, angle, ja, db, jl, ok) ==
    LET st == IF detected THEN PostureAnalyzer_analyze(baseline, angle) ELSE "UNKNOWN"
        a == IF detected THEN AlertManager_check(am, st, t, ja, ok)
             ELSE [am |-> am, fired |-> FALSE, sent |-> 0, t_fire |-> t, clock |-> t]
        b == IF detected THEN BreakReminder_check(br, a.clock, db, ok)
             ELSE [br |-> br, reminded |-> FALSE, sent |-> 0, clock |-> a.clock]
        l == SessionLogger_record(lg, st, IF detected THEN angle ELSE 0, b.clock, jl)
    IN  [am |-> a.am, br |-> b.br, lg |-> l.lg, status |-> st,
         alert_checked |-> detected, break_checked |-> detected,
         fired |-> a.fired, reminded |-> b.reminded, recorded |-> l.recorded,
         alert_sent |-> a.sent, break_sent |-> b.sent, t_fire |-> a.t_fire,
         clock |-> l.clock]

\* lines 174-196 of one iteration, entered at clock t: detect, then, when a
\* person was detected, analyze, alerts.check, breaks.check, logger.record
main_loop_process(am, br, lg, baseline, t, detected, angle, ja, db, jl, ok) ==
    IF ~detected
    THEN [am |-> am, br |-> br, lg |-> lg, status |-> "UNKNOWN",
          alert_checked |-> FALSE, break_checked |-> FALSE,
          fired |-> FALSE, reminded |-> FALSE, recorded |-> FALSE,
          alert_sent |-> 0, break_sent |-> 0, t_fire |-> t, clock |-> t]
    ELSE LET st == PostureAnalyzer_analyze(baseline, angle)
             a == AlertManager_check(am, st, t, ja, ok)
             b == BreakReminder_check(br, a.clock, db, ok)
             l == SessionLogger_record(lg, st, angle, b.clock, jl)
         IN  [am |-> a.am, br |-> b.br, lg |-> l.lg, status |-> st,
              alert_checked |-> TRUE, break_checked |-> TRUE,
              fired |-> a.fired, reminded |-> b.reminded, recorded |-> l.recorded,
              alert_sent |-> a.sent, break_sent |-> b.sent, t_fire |-> a.t_fire,
              clock |-> l.clock]

\* the history after a tick at clock t with the given status
TickHist(h, t, status, fired, t_fire, reminded) ==
    [h EXCEPT
       !.fires = IF fired THEN Append(@, t_fire) ELSE @,
       !.reminders = IF reminded THEN Append(@, t) ELSE @,
       !.nonbad_at = IF status = "BAD" THEN @ ELSE t,
       !.first_bad = IF status # "BAD" THEN None
                     ELSE IF @ = None THEN Some(t) ELSE @]

\* main is started with some user_baseline.json, or none, on the disk
InitLoop ==
    \E file \in PersistedFiles :
        Fresh([NoRun EXCEPT !.pc = "initialize", !.persisted = file], NoMono, 0)

\* initialize_system, called by main: the baseline is loaded and the
\* components are constructed, or an exception ends the program
InitializeSystem ==
    /\ run.pc = "initialize"
    /\ LET r == initialize_system(run.persisted)
       IN  /\ run' = [run EXCEPT !.pc = IF r.failed THEN "crashed" ELSE "setup",
                                 !.baseline = r.baseline]
           /\ obs' = [NoObs EXCEPT !.op = "initialize", !.t = now, !.raised = r.failed]
    /\ UNCHANGED <<now, alerts, breaks, logger, notifier, files, mono, calib,
                   analyzer, pose, calls, script, hist>>

\* setup_camera and the test of its result in main: the camera cannot be
\* opened (no handle, the program exits), it opens but the test frame cannot
\* be read (released, the program exits), or it is ready
SetupCamera ==
    /\ run.pc = "setup"
    /\ \E opened \in BOOLEAN, ret \in BOOLEAN :
        /\ run' = [run EXCEPT
                     !.pc = IF opened /\ ret THEN "loop" ELSE "no_camera",
                     !.cap = IF ~opened THEN "none"
                             ELSE IF ~ret THEN "released" ELSE "open"]
        /\ obs' = [NoObs EXCEPT !.op = "setup", !.t = now,
                                !.released = opened /\ ~ret]
    /\ UNCHANGED <<now, alerts, breaks, logger, notifier, files, mono, calls,
                   script, analyzer, pose, calib, hist>>

\* what may go wrong in an iteration before the frame is processed: the user
\* interrupts from the keyboard, or detector.detect raises
TickFaults == {"none", "interrupted", "detect_failed"}

\* the ways an iteration ends the loop before line 182 is reached
EarlyExits == {"closed", "read_failed", "interrupted", "detect_failed"}

\* one iteration of the while loop of main_loop, with the way it leaves the
\* loop: the capture is closed, the frame read fails, KeyboardInterrupt or an
\* exception is raised (caught at lines 214-217), display_ui raises (caught
\* there too), or the user quits
MainTick ==
    /\ run.pc = "loop"
    /\ run.frames < MaxFrames
    /\ \E step \in LoopSteps, opened \in BOOLEAN, ret \in BOOLEAN,
          fault \in TickFaults,
          detected \in BOOLEAN, angle \in Angles, ja \in Jitters,
          db \in Jitter, jl \in [1..2 -> Jitter], ok \in BOOLEAN, quit \in BOOLEAN :
        LET t == now + step
            r == main_loop_process(alerts, breaks, logger, run.baseline, t,
                                   detected, angle, ja, db, jl, ok)
            exit == IF ~display_ui(detected, r.status) THEN "error"
                    ELSE IF quit THEN "quit" ELSE "none"
        IN  IF ~opened \/ ~ret \/ fault # "none"
            THEN /\ now' = t
                 /\ run' = [run EXCEPT !.pc = "cleanup"]
                 /\ obs' = [NoObs EXCEPT !.op = "tick", !.t = t,
                                 !.exit = IF ~opened THEN "closed"
                                          ELSE IF ~ret THEN "read_failed"
                                          ELSE fault]
                 /\ UNCHANGED <<alerts, breaks, logger, notifier, hist>>
            ELSE /\ now' = r.clock
                 /\ alerts' = r.am
                 /\ breaks' = r.br
                 /\ logger' = r.lg
                 /\ notifier' = [alert |-> notifier.alert + r.alert_sent,
                                 brk |-> notifier.brk + r.break_sent]
                 /\ run' = [run EXCEPT !.frames = @ + 1,
                                       !.pc = IF exit = "none" THEN "loop" ELSE "cleanup"]
                 /\ obs' = [NoObs EXCEPT !.op = "tick", !.t = t, !.status = r.status,
                                 !.detected = detected,
                                 !.alert_checked = r.alert_checked,
                                 !.break_checked = r.break_checked,
                                 !.fired = r.fired, !.reminded = r.reminded,
                                 !.recorded = r.recorded, !.t_fire = r.t_fire,
                                 !.exit = exit]
                 /\ hist' = TickHist(hist, t, r.status, r.fired, r.t_fire, r.reminded)
    /\ UNCHANGED <<files, mono, calls, script, analyzer, pose, calib>>

\* cleanup_and_save, run by the finally of main: release the camera, close
\* the windows, save the session.  windows: cv2.destroyAllWindows returns;
\* when it raises, the exception leaves cleanup_and_save before line 252.
CleanupAndSave ==
    /\ run.pc = "cleanup"
    /\ \E windows \in BOOLEAN, wr \in WriteOutcomes :
        LET r == SessionLogger_save(logger, files, now, wr)
        IN  /\ run' = [run EXCEPT !.pc = "done", !.cap = "released",
                                  !.saved = windows]
            /\ files' = IF windows THEN r.files ELSE files
            /\ obs' = IF windows
                      THEN [NoObs EXCEPT !.op = "cleanup", !.t = now,
                                         !.released = TRUE, !.save_called = TRUE,
                                         !.ret = r.ret, !.message = r.message,
                                         !.summary_printed = r.summary_printed,
                                         !.wr = wr]
                      ELSE [NoObs EXCEPT !.op = "cleanup", !.t = now,
                                         !.released = TRUE, !.raised = TRUE]
    /\ UNCHANGED <<now, alerts, breaks, logger, notifier, mono, calls, script, analyzer, pose, calib, hist>>

NextLoop == InitializeSystem \/ SetupCamera \/ MainTick \/ CleanupAndSave

SpecLoop == InitLoop /\ [][NextLoop]_vars

-----------------------------------------------------------------------------
(* posture_test_initial_work.py: the single-file program *)

Config_BAD_POSTURE_DURATION == 180
Config_ALERT_COOLDOWN == 300
Config_BREAK_REMINDER_INTERVAL == 1800
Config_LOG_INTERVAL == 5
Config_GOOD_POSTURE_ANGLE == 170
Config_FAIR_POSTURE_ANGLE == 160

\* check_posture with baseline None; complete: the three landmarks can be
\* read, otherwise the except branch returns UNKNOWN
check_posture(complete, angle) ==
    IF ~complete THEN "UNKNOWN"
    ELSE IF angle > Deg(Config_GOOD_POSTURE_ANGLE) THEN "GOOD"
    ELSE IF angle > Deg(Config_FAIR_POSTURE_ANGLE) THEN "FAIR"
    ELSE "BAD"

\* round(angle, 1) of an angle in thousandths of a degree
Round1(angle) == ((angle + 50) \div 100) * 100

\* lines 235-252: the bad-posture tracking of a frame with a person, at clock t
posture_main_track(m, status, t) ==
    IF status = "BAD"
    THEN IF m.bad_posture_start = None
         THEN [m |-> [m EXCEPT !.bad_posture_start = Some(t)], fired |-> FALSE]
         ELSE IF /\ t - m.bad_posture_start[1] > Config_BAD_POSTURE_DURATION
                 /\ \/ m.last_alert_time = None
                    \/ t - m.last_alert_time[1] > Config_ALERT_COOLDOWN
              THEN [m |-> [m EXCEPT !.last_alert_time = Some(t)], fired |-> TRUE]
              ELSE [m |-> m, fired |-> FALSE]
    ELSE [m |-> [m EXCEPT !.bad_posture_start = None], fired |-> FALSE]

\* lines 197-266 of one iteration, entered at clock t: the tracking and the
\* log entry only when a person is detected, the break reminder on every
\* frame.  d seconds pass between the clock reads of the tracking and those
\* of the log and the break reminder.
posture_main_process(m, t, detected, complete, angle, d) ==
    LET status == IF detected THEN check_posture(complete, angle) ELSE "NO DETECTION"
        shown == IF detected /\ complete THEN angle ELSE 0
        tr == IF detected THEN posture_main_track(m, status, t)
              ELSE [m |-> m, fired |-> FALSE]
        t2 == t + d
        logged == detected /\ t2 - tr.m.last_log_time > Config_LOG_INTERVAL
        m2 == IF logged
              THEN [tr.m EXCEPT
                      !.session_log = Append(@, [timestamp |-> t2, status |-> status,
                                                 angle |-> Round1(shown)]),
                      !.last_log_time = t2]
              ELSE tr.m
        t3 == t2
        reminded == t3 - m2.break_reminder_time > Config_BREAK_REMINDER_INTERVAL
        m3 == IF reminded THEN [m2 EXCEPT !.break_reminder_time = t3] ELSE m2
    IN  [m |-> m3, status |-> status, fired |-> tr.fired, recorded |-> logged,
         reminded |-> reminded, clock |-> t3]

InitMono ==
    Fresh(NoRun, [NoMono EXCEPT !.pc = "loop"], 0)

\* one iteration of the while loop of main: the capture is closed or the
\* frame read fails (the loop ends), or the frame is processed and shown and
\* the user may quit
MonoTick ==
    /\ mono.pc = "loop"
    /\ mono.frames < MaxFrames
    /\ \E step \in MonoSteps, opened \in BOOLEAN, ret \in BOOLEAN,
          detected \in BOOLEAN,
          complete \in BOOLEAN, angle \in MonoAngles, d \in Jitter,
          quit \in BOOLEAN :
        LET t == now + step
            r == posture_main_process(mono, t, detected, complete, angle, d)
        IN  IF ~opened \/ ~ret
            THEN /\ now' = t
                 /\ mono' = [mono EXCEPT !.pc = "cleanup"]
                 /\ obs' = [NoObs EXCEPT !.op = "tick", !.t = t,
                                 !.exit = IF ~opened THEN "closed" ELSE "read_failed"]
                 /\ UNCHANGED <<notifier, hist>>
            ELSE /\ now' = r.clock
                 /\ mono' = [r.m EXCEPT !.frames = @ + 1,
                                        !.pc = IF quit THEN "cleanup" ELSE "loop"]
                 /\ notifier' = [alert |-> notifier.alert + (IF r.fired THEN 1 ELSE 0),
                                 brk |-> notifier.brk + (IF r.reminded THEN 1 ELSE 0)]
                 /\ obs' = [NoObs EXCEPT !.op = "tick", !.t = t, !.status = r.status,
                                 !.detected = detected, !.alert_checked = detected,
                                 !.break_checked = TRUE, !.fired = r.fired,
                                 !.reminded = r.reminded, !.recorded = r.recorded,
                                 !.t_fire = t, !.exit = IF quit THEN "quit" ELSE "none"]
                 /\ hist' = TickHist(hist, t, r.status, r.fired, t, r.reminded)
    /\ UNCHANGED <<alerts, breaks, logger, files, run, calls, script, analyzer, pose, calib>>

\* save_session(session_log, session_start): the disk it leaves
save_session(log, start, fs, wr) ==
    IF log = <<>> \/ wr = "open_failed" THEN fs
    ELSE IF wr = "write_failed" THEN WriteFile(fs, start, FALSE, <<>>)
    ELSE WriteFile(fs, start, TRUE, log)

\* after the loop: release the camera and save the session
MonoCleanup ==
    /\ mono.pc = "cleanup"
    /\ \E wr \in WriteOutcomes :
        /\ mono' = [mono EXCEPT !.pc = "done"]
        /\ files' = save_session(mono.session_log, StartTime, files, wr)
        /\ obs' = [NoObs EXCEPT !.op = "cleanup", !.t = now, !.released = TRUE,
                                !.save_called = TRUE, !.wr = wr]
    /\ UNCHANGED <<now, alerts, breaks, logger, notifier, run, calls, script, analyzer, pose, calib, hist>>

NextMono == MonoTick \/ MonoCleanup

SpecMono == InitMono /\ [][NextMono]_vars

-----------------------------------------------------------------------------
(* posture_core.py: PostureAnalyzer.analyze applied to one frame *)

\* the baselines a PostureAnalyzer may be constructed with
AnalyzerBaselines ==
    {None,
     Some([good_angle |-> Deg(170), tolerance |-> Deg(10)]),
     Some([good_angle |-> Deg(170), tolerance |-> Deg(5)])}

\* the landmark collections a frame may give: all three points that analyze
\* reads, or one of them missing
PoseDomains == {{11, 17, 23}, {11, 17}, {11, 23}, {17, 23}}
Poses == UNION {[d -> Points] : d \in PoseDomains}

InitAnalyze ==
    \E b \in AnalyzerBaselines, ps \in Poses :
        FreshAll(NoRun, NoMono, 0, NoCalib, [baseline |-> b], ps)

\* analyzer.analyze(pose_landmarks) on the frame in hand
Analyze ==
    /\ obs.op = "init"
    /\ LET r == PostureAnalyzer_analyze_landmarks(analyzer.baseline, pose)
       IN  obs' = [NoObs EXCEPT !.op = "analyze", !.raised = r.raised,
                                !.status = r.status, !.angle = r.angle]
    /\ UNCHANGED <<now, alerts, breaks, logger, notifier, files, run, mono, calib,
                   analyzer, pose, calls, script, hist>>

NextAnalyze == Analyze

SpecAnalyze == InitAnalyze /\ [][NextAnalyze]_vars

-----------------------------------------------------------------------------
(* posture_core.py: calibrate_user *)

\* the samples the validation of line 192 asks for
MIN_SAMPLES == 50

\* the durations calibrate_user is called with
CalibDurations == {1, 2}
\* seconds that may pass before an iteration of the calibration loop starts
CalibSteps == {0, 1}
\* the angles a calibration frame may show
CalibAngles == {Deg(170), Deg(176)}
\* what the processing of a calibration frame may do: no frame is read, no
\* person is detected, an angle is sampled, or detect, analyze or the drawing
\* raises
FrameOutcomes == {"no_frame", "no_person", "sample", "raises"}

\* calibrate_user(duration) after lines 147-154: the camera handle is created
\* (opened or not, it is not tested) and the clock is read
\* what user_baseline.json may hold when calibrate_user is called: nothing,
\* or the baseline of an earlier calibration
PriorFiles ==
    {None, Some([good_angle |-> Deg(165), tolerance |-> Deg(10), samples |-> 60,
                 min_angle |-> Deg(160), max_angle |-> Deg(170)])}

InitCalib ==
    \E d \in CalibDurations, cap \in {"open", "unopened"}, prior \in PriorFiles :
        FreshWith(NoRun, NoMono, 0,
                  [NoCalib EXCEPT !.pc = "loop", !.cap = cap, !.duration = d,
                                  !.taken = [a \in CalibAngles |-> 0],
                                  !.baseline_file = prior, !.prior_file = prior])

\* the baseline with the largest sample in the place of the mean
calibrate_baseline_MaxAsMean(c) ==
    [good_angle |-> c.max_angle, tolerance |-> Deg(10),
     samples |-> c.samples, min_angle |-> c.min_angle, max_angle |-> c.max_angle]

\* the baseline the samples give: the mean, the fixed tolerance, the count
\* and the range (the mean in whole thousandths of a degree)
calibrate_baseline(c) ==
    [good_angle |-> c.sum \div c.samples, tolerance |-> Deg(10),
     samples |-> c.samples, min_angle |-> c.min_angle, max_angle |-> c.max_angle]

\* one evaluation of the while condition of line 156 and, when it holds, one
\* iteration of the loop: the time is up, no frame (continue), a frame with
\* or without a person, an exception that leaves calibrate_user, the user
\* cancels
CalibFrame ==
    /\ calib.pc = "loop"
    /\ \E step \in CalibSteps, outcome \in FrameOutcomes, angle \in CalibAngles,
          quit \in BOOLEAN :
        LET t == now + step
            sampled == [calib EXCEPT
                          !.samples = @ + 1,
                          !.sum = @ + angle,
                          !.taken = [@ EXCEPT ![angle] = @ + 1],
                          !.min_angle = IF calib.samples = 0 \/ angle < @ THEN angle ELSE @,
                          !.max_angle = IF calib.samples = 0 \/ angle > @ THEN angle ELSE @]
        IN  /\ now' = t
            /\ outcome = "sample" => calib.samples < MaxSamples
            /\ IF ~(t - calib.start_time < calib.duration)
               THEN /\ calib' = [calib EXCEPT !.pc = "finish"]
                    /\ obs' = [NoObs EXCEPT !.op = "calib_frame", !.t = t,
                                            !.exit = "timeout"]
               ELSE IF calib.cap = "unopened" \/ outcome = "no_frame"
               THEN /\ calib' = calib
                    /\ obs' = [NoObs EXCEPT !.op = "calib_frame", !.t = t]
               ELSE IF outcome = "raises"
               THEN /\ calib' = [calib EXCEPT !.pc = "raised"]
                    /\ obs' = [NoObs EXCEPT !.op = "calib_frame", !.t = t,
                                            !.exit = "error", !.raised = TRUE]
               ELSE /\ calib' = [(IF outcome = "sample" THEN sampled ELSE calib)
                                   EXCEPT !.pc = IF quit THEN "finish" ELSE "loop"]
                    /\ obs' = [NoObs EXCEPT !.op = "calib_frame", !.t = t,
                                            !.detected = (outcome = "sample"),
                                            !.exit = IF quit THEN "quit" ELSE "none"]
    /\ UNCHANGED <<alerts, breaks, logger, notifier, files, run, mono, calls, script, analyzer, pose,
                   hist>>

\* the end of calibrate_user with a cancelled run thrown away
CalibFinish_CancelDiscards ==
    /\ calib.pc = "finish"
    /\ \E written \in BOOLEAN :
        /\ calib' = IF calib.samples < MIN_SAMPLES \/ obs.exit = "quit"
                    THEN [calib EXCEPT !.pc = "done", !.cap = "released"]
                    ELSE IF ~written
                    THEN [calib EXCEPT !.pc = "raised", !.cap = "released"]
                    ELSE [calib EXCEPT !.pc = "done", !.cap = "released",
                                       !.result = Some(calibrate_baseline(calib)),
                                       !.baseline_file = Some(calibrate_baseline(calib))]
        /\ obs' = [NoObs EXCEPT !.op = "calib_finish", !.t = now, !.released = TRUE,
                                !.exit = obs.exit,
                                !.raised = (calib.samples >= MIN_SAMPLES /\ obs.exit # "quit"
                                            /\ ~written)]
    /\ UNCHANGED <<now, alerts, breaks, logger, notifier, files, run, mono, calls,
                   script, analyzer, pose, hist>>

\* lines 188-217: release the camera, close the windows, validate the
\* samples, write user_baseline.json and return the baseline; written: the
\* open and json.dump of lines 208-209 go through (they raise otherwise); exit
\* keeps the way the loop was left
CalibFinish ==
    /\ calib.pc = "finish"
    /\ \E written \in BOOLEAN :
        /\ calib' = IF calib.samples < MIN_SAMPLES
                    THEN [calib EXCEPT !.pc = "done", !.cap = "released"]
                    ELSE IF ~written
                    THEN [calib EXCEPT !.pc = "raised", !.cap = "released"]
                    ELSE [calib EXCEPT !.pc = "done", !.cap = "released",
                                       !.result = Some(calibrate_baseline(calib)),
                                       !.baseline_file = Some(calibrate_baseline(calib))]
        /\ obs' = [NoObs EXCEPT !.op = "calib_finish", !.t = now, !.released = TRUE,
                                !.exit = obs.exit,
                                !.raised = (calib.samples >= MIN_SAMPLES /\ ~written)]
    /\ UNCHANGED <<now, alerts, breaks, logger, notifier, files, run, mono, calls,
                   script, analyzer, pose, hist>>

NextCalib == CalibFrame \/ CalibFinish

SpecCalib == InitCalib /\ [][NextCalib]_vars

-----------------------------------------------------------------------------
(* A fresh AlertManager ticked once per second: tick k is a check at clock  *)
(* StartTime + k - 1, and the clock stands still during a call.  Every     *)
(* tick is BAD, but for the tick the script gives GOOD.                     *)

\* the scripts: BAD throughout, or one GOOD tick after BAD_DURATION - 1 BAD ones
Scripts == {0, BAD_DURATION}

\* the tick made at clock t
TickOf(t) == t - StartTime + 1

InitTicks == \E sc \in Scripts : Fresh(NoRun, NoMono, sc)

ScriptTick ==
    /\ calls < MaxTicks
    /\ DoAlertCheck(IF calls + 1 = script THEN "GOOD" ELSE "BAD",
                    StartTime + calls, NoJitter, TRUE)

NextTicks == ScriptTick

SpecTicks == InitTicks /\ [][NextTicks]_vars

-----------------------------------------------------------------------------
(* Properties of AlertManager, checked under Spec *)

\* C1: any two consecutive alert firings are at least ALERT_COOLDOWN apart,
\* and an alert fires only when last_alert was none or the cooldown is over
\* (after a firing, last_alert is the time the firing was booked).
C1_AlertsCooldownApart ==
    /\ \A i \in 1..(Len(hist.fires) - 1) :
           hist.fires[i + 1] - hist.fires[i] >= ALERT_COOLDOWN
    /\ Len(hist.fires) > 0 =>
           /\ alerts.last_alert # None
           /\ alerts.last_alert[1] >= hist.fires[Len(hist.fires)]

\* two alerts have fired
C1_Witness == Len(hist.fires) >= 2

\* C2: an alert fires only on a BAD check made at least BAD_DURATION after
\* bad_start, the time of the first BAD check since the last non-BAD check
\* (or since creation); so none fires within BAD_DURATION of a non-BAD check.
C2_AlertOnlyAfterBadDuration ==
    (obs.op = "alert" /\ obs.fired) =>
        /\ obs.status = "BAD"
        /\ hist.first_bad # None
        /\ alerts.bad_start = hist.first_bad
        /\ obs.t_fire - hist.first_bad[1] >= BAD_DURATION
        /\ obs.t_fire - hist.nonbad_at >= BAD_DURATION

\* an alert fires exactly BAD_DURATION after a non-BAD check reset the timer
C2_Witness ==
    /\ obs.op = "alert" /\ obs.fired
    /\ hist.nonbad_at > StartTime
    /\ obs.t_fire - hist.nonbad_at = BAD_DURATION

\* C3: check with a status other than BAD clears bad_start from every prior
\* state, fires nothing, and leaves last_alert and alert_count as they were.
C3_NonBadResets ==
    [][(obs'.op = "alert" /\ obs'.status # "BAD") =>
          /\ alerts'.bad_start = None
          /\ ~obs'.fired
          /\ alerts'.last_alert = alerts.last_alert
          /\ alerts'.alert_count = alerts.alert_count
          /\ notifier' = notifier]_vars

\* an UNKNOWN check has cleared a timer that had run long enough to alert
C3_Witness ==
    /\ obs.op = "alert" /\ obs.status = "UNKNOWN"
    /\ alerts.alert_count >= 1
    /\ alerts.bad_start = None

\* C7: every firing of AlertManager.check dispatches exactly one notify
\* request, and every firing of BreakReminder.check exactly one.
C7_OneRequestPerFiring ==
    /\ notifier.alert = Len(hist.fires)
    /\ notifier.brk = Len(hist.reminders)

\* C8: when the dispatch of a firing alert fails, nothing is raised out of
\* check, alert_count grows by one and last_alert is the current time.
C8_FailedDispatchKeepsBookkeeping ==
    [][(obs'.op = "alert" /\ obs'.fired /\ obs'.outcome = "failed") =>
          /\ ~obs'.raised
          /\ alerts'.alert_count = alerts.alert_count + 1
          /\ alerts'.last_alert = Some(now')]_vars

\* an alert has fired and its dispatch failed
C8_Witness == obs.op = "alert" /\ obs.fired /\ obs.outcome = "failed"

-----------------------------------------------------------------------------
(* Properties of BreakReminder, checked under SpecBreak *)

\* the time before which reminder i may not fire
ReminderFloor(i) == IF i = 1 THEN StartTime ELSE hist.reminders[i - 1]

\* C9: BreakReminder.check dispatches a reminder iff now - last_break >=
\* BREAK_INTERVAL; on dispatch last_break becomes now and break_count grows by
\* one, otherwise nothing changes.  So the first reminder comes no earlier
\* than BREAK_INTERVAL after construction and two consecutive reminders are
\* at least BREAK_INTERVAL apart.
C9_BreakReminderInterval ==
    /\ [][(obs'.op = "break" /\ calls' = calls + 1) =>
            LET due == obs'.t - breaks.last_break >= BREAK_INTERVAL
            IN  /\ due <=> (notifier'.brk = notifier.brk + 1)
                /\ due <=> obs'.reminded
                /\ due => /\ breaks'.last_break = now'
                          /\ breaks'.break_count = breaks.break_count + 1
                /\ ~due => /\ breaks' = breaks
                           /\ notifier' = notifier]_vars
    /\ [](\A i \in 1..Len(hist.reminders) :
            hist.reminders[i] - ReminderFloor(i) >= BREAK_INTERVAL)

\* two reminders have been dispatched
C9_Witness == Len(hist.reminders) >= 2

-----------------------------------------------------------------------------
(* Properties of the scripted runs, checked under SpecTicks *)

\* C5, as claimed: 179 BAD ticks, one GOOD tick, then 181 BAD ticks produce
\* no alert at all.
C5_NoAlertIn361Ticks ==
    (script = BAD_DURATION /\ calls <= (BAD_DURATION - 1) + 1 + (BAD_DURATION + 1))
        => hist.fires = <<>>

\* C5, amended: 179 BAD ticks, one GOOD tick, then 180 BAD ticks produce no
\* alert; the 181st BAD tick after the GOOD tick (tick 361) fires the first.
C5_FirstAlertAtTick361 ==
    script = BAD_DURATION =>
        LET first == BAD_DURATION + BAD_DURATION + 1
        IN  /\ calls < first => hist.fires = <<>> /\ alerts.alert_count = 0
            /\ calls >= first =>
                   /\ Len(hist.fires) >= 1
                   /\ TickOf(hist.fires[1]) = first

\* the run with the GOOD tick has made its 361st tick and fired once
C5_Witness ==
    /\ script = BAD_DURATION
    /\ calls = BAD_DURATION + BAD_DURATION + 1
    /\ obs.fired /\ alerts.alert_count = 1

\* C6: under BAD ticks at one per second, one alert fires in the first 181
\* ticks, at tick 181; no second one fires before 300 s have passed since
\* it, and one fires on the tick at which they have (tick 481).
C6_AlertsAtTicks181And481 ==
    script = 0 =>
        LET first == BAD_DURATION + 1
            second == first + ALERT_COOLDOWN
            ticks == [i \in 1..Len(hist.fires) |-> TickOf(hist.fires[i])]
        IN  /\ calls < first => ticks = <<>>
            /\ (first <= calls /\ calls < second) => ticks = <<first>>
            /\ calls >= second =>
                   /\ Len(ticks) >= 2 /\ ticks[1] = first /\ ticks[2] = second
                   /\ calls < second + ALERT_COOLDOWN => Len(ticks) = 2
            /\ alerts.alert_count = Len(ticks)

\* the all-BAD run has fired its second alert
C6_Witness ==
    /\ script = 0
    /\ calls = BAD_DURATION + 1 + ALERT_COOLDOWN
    /\ obs.fired /\ alerts.alert_count = 2

-----------------------------------------------------------------------------
(* Properties of main_loop, checked under SpecLoop *)

\* C10: on every processing tick of the monitoring loop, whether or not a
\* person is detected, BreakReminder.check is called; so a tick made when
\* BREAK_INTERVAL has passed since the last break dispatches a reminder
\* (and moves last_break).
C10_BreakCheckedEveryTick ==
    (obs.op = "tick" /\ obs.exit \notin EarlyExits) =>
        /\ obs.break_checked
        /\ obs.t - breaks.last_break < BREAK_INTERVAL

-----------------------------------------------------------------------------
(* Properties of the single-file loop, checked under SpecMono *)

\* C4: a tick on which no person is detected does not advance the alert
\* timer: the bad-posture time an alert decision rests on includes no time
\* spent on no-detection ticks, so an alert fires only when BAD_DURATION has
\* passed since the last tick that was not BAD, a no-detection tick included.
C4_NoDetectionNotCounted ==
    (obs.op = "tick" /\ obs.fired) =>
        obs.t_fire - hist.nonbad_at >= Config_BAD_POSTURE_DURATION

-----------------------------------------------------------------------------
(* SessionLogger *)

\* C11: two calls of SessionLogger.record made less than RECORD_EVERY seconds
\* apart append exactly one entry between them, the first two calls on a
\* freshly constructed logger included.
C11_TwoCallsAppendOne ==
    (/\ Len(hist.records) = 2
     /\ hist.records[2].t - hist.records[1].t < RECORD_EVERY)
        => Cardinality({i \in 1..2 : hist.records[i].recorded}) = 1

\* C12: over any sequence of record, get_score, get_summary and save calls the
\* log only grows at its end (the log before a call is a prefix of the log
\* after it), consecutive entries are at least RECORD_EVERY seconds apart and
\* the timestamps never decrease.
C12_LogAppendOnly ==
    /\ [][/\ Len(logger.log) <= Len(logger'.log)
          /\ SubSeq(logger'.log, 1, Len(logger.log)) = logger.log]_vars
    /\ [](\A i \in 1..(Len(logger.log) - 1) :
            /\ logger.log[i + 1].timestamp - logger.log[i].timestamp >= RECORD_EVERY
            /\ logger.log[i + 1].timestamp >= logger.log[i].timestamp)

\* two entries are in the log and a save has just gone through
C12_Witness ==
    /\ obs.op = "save"
    /\ obs.ret # None
    /\ Len(logger.log) >= 2

\* C14: get_score returns 0.0 for an empty log and otherwise
\* (good*100 + fair*60 + bad*20) / total rounded to one decimal (it is within
\* half a tenth of the quotient); it lies in [0, 100]; one GOOD entry scores
\* 100.0 and equal counts of GOOD, FAIR and BAD score 60.0.  Scores are in
\* tenths of a point.
C14_ScoreFormula ==
    obs.op = "get_score" =>
        LET good == CountStatus(logger.log, "GOOD")
            fair == CountStatus(logger.log, "FAIR")
            bad == CountStatus(logger.log, "BAD")
            total == Len(logger.log)
            diff == obs.score * total - 10 * (good * 100 + fair * 60 + bad * 20)
        IN  /\ total = 0 => obs.score = 0
            /\ total > 0 => 2 * diff <= total /\ -2 * diff <= total
            /\ obs.score >= 0 /\ obs.score <= 1000
            /\ (total = 1 /\ good = 1) => obs.score = 1000
            /\ (good > 0 /\ good = fair /\ fair = bad) => obs.score = 600

\* get_score has just been called on a log of one GOOD, one FAIR and one BAD
C14_Witness ==
    /\ obs.op = "get_score"
    /\ CountStatus(logger.log, "GOOD") = 1
    /\ CountStatus(logger.log, "FAIR") = 1
    /\ CountStatus(logger.log, "BAD") = 1

\* C15: two get_summary calls with no record call between them return the
\* same keys with the same values, but for duration, which is never smaller in
\* the later one; get_summary changes nothing of the logger.
C15_SummaryIdempotent ==
    /\ [](hist.prev_summary # None =>
            LET a == hist.prev_summary[1]
                b == hist.last_summary[1]
            IN  /\ DOMAIN a = DOMAIN b
                /\ \A k \in DOMAIN a \ {"duration"} : a[k] = b[k]
                /\ b.duration >= a.duration)
    /\ [][obs'.op = "get_summary" => logger' = logger]_vars

\* two summaries of a log with entries, the clock having moved between them
C15_Witness ==
    /\ hist.prev_summary # None
    /\ logger.log # <<>>
    /\ hist.last_summary[1].duration > hist.prev_summary[1].duration

\* C16: get_summary on an empty log returns the fields it returns on a log
\* with entries: counts, percentages and score all zero, and the wall-clock
\* time elapsed since the session started as duration.
C16_EmptySummaryComplete ==
    (obs.op = "get_summary" /\ logger.log = <<>>) =>
        LET summary == obs.summary[1]
        IN  /\ DOMAIN summary = {"duration", "data_points", "score",
                                  "good_percent", "fair_percent", "bad_percent",
                                  "good_count", "fair_count", "bad_count"}
            /\ summary.duration = obs.t - logger.session_start
            /\ summary.data_points = 0 /\ summary.score = 0
            /\ summary.good_percent = 0 /\ summary.fair_percent = 0
            /\ summary.bad_percent = 0
            /\ summary.good_count = 0 /\ summary.fair_count = 0
            /\ summary.bad_count = 0

\* C17: save on an empty log returns None and leaves the disk as it was; on a
\* log with entries, the write going through, it leaves exactly one file
\* named from the session start, holding the header row and the entries of
\* the log in order, and returns that name; save never changes the logger.
C17_SaveWritesLog ==
    /\ [][(obs'.op = "save" /\ logger.log = <<>>) =>
              (obs'.ret = None /\ files' = files)]_vars
    /\ [][obs'.op = "save" => logger' = logger]_vars
    /\ []((obs.op = "save" /\ logger.log # <<>> /\ obs.wr = "ok") =>
            /\ obs.ret = Some(SessionFileName(logger))
            /\ {f \in files : f.name = SessionFileName(logger)}
                 = {[name |-> SessionFileName(logger), header |-> TRUE,
                     rows |-> logger.log]})

\* a log of two entries has just been saved
C17_Witness ==
    /\ obs.op = "save"
    /\ obs.wr = "ok"
    /\ Len(logger.log) >= 2
    /\ files # {}

\* C18: when the file write of save fails, save does not raise, reports the
\* failure, and the session summary is still printed.
C18_FailedSaveShowsSummary ==
    (obs.op = "save" /\ logger.log # <<>> /\ obs.wr # "ok") =>
        /\ ~obs.raised
        /\ obs.message = "failed"
        /\ obs.summary_printed

-----------------------------------------------------------------------------
(* The monitoring session of main.py: logging and cleanup *)

\* C13: in the monitoring loop a tick on which no person is detected appends
\* no log entry, every entry the loop appends has status GOOD, FAIR or BAD,
\* and so the GOOD, FAIR and BAD counts add up to the number of entries.
C13_NoDetectionNoEntry ==
    /\ [][(obs'.op = "tick" /\ obs'.exit \notin EarlyExits /\ ~obs'.detected)
              => logger'.log = logger.log]_vars
    /\ [](\A i \in 1..Len(logger.log) :
            logger.log[i].status \in {"GOOD", "FAIR", "BAD"})
    /\ [](CountStatus(logger.log, "GOOD") + CountStatus(logger.log, "FAIR")
            + CountStatus(logger.log, "BAD") = Len(logger.log))

\* a tick without a person was processed when a record was due
C13_Witness ==
    /\ obs.op = "tick"
    /\ obs.exit \notin EarlyExits
    /\ ~obs.detected
    /\ obs.t - logger.last_record >= RECORD_EVERY

\* C19: however the monitoring loop ends once it has started, when the
\* program has ended the capture is released and SessionLogger.save has been
\* invoked.
C19_CleanupReleasesAndSaves ==
    run.pc = "done" => (run.cap = "released" /\ run.saved)

-----------------------------------------------------------------------------
(* Camera handles *)

\* C20: every camera handle that is opened is released on every exit path,
\* exceptions included: when the monitoring session or calibrate_user has
\* ended, in whatever way, no handle is left open.
C20_CameraAlwaysReleased ==
    /\ run.pc \in {"done", "no_camera"} => run.cap # "open"
    /\ calib.pc \in {"done", "raised"} => calib.cap # "open"

-----------------------------------------------------------------------------
(* The monitoring loop of main.py: how it ends *)

\* C21: in main_loop a tick on which the frame is read, nothing raises before
\* the frame is processed, and the user neither quits nor interrupts leaves
\* the loop running: it is followed by another tick.
C21_TickFollowedByTick ==
    (obs.op = "tick" /\ obs.exit \notin (EarlyExits \cup {"quit"})) => run.pc = "loop"

-----------------------------------------------------------------------------
(* PostureAnalyzer.analyze, checked under SpecAnalyze *)

\* C22: analyze maps the computed angle to exactly one of GOOD, FAIR, BAD by
\* the closed rule (>= good threshold: GOOD; >= fair threshold and below the
\* good one: FAIR; below the fair one: BAD); without a baseline the thresholds
\* are 170 and 160, so exactly 170 is GOOD and exactly 160 is FAIR; the
\* status is never UNKNOWN and the angle returned is the computed angle.
C22_ClosedRule ==
    (obs.op = "analyze" /\ ~obs.raised) =>
        LET good == IF analyzer.baseline = None THEN Deg(170)
                    ELSE analyzer.baseline[1].good_angle - Deg(10)
            fair == IF analyzer.baseline = None THEN Deg(160)
                    ELSE analyzer.baseline[1].good_angle - Deg(20)
        IN  /\ obs.status \in {"GOOD", "FAIR", "BAD"}
            /\ obs.status = "GOOD" <=> obs.angle >= good
            /\ obs.status = "FAIR" <=> (obs.angle >= fair /\ obs.angle < good)
            /\ obs.status = "BAD" <=> obs.angle < fair
            /\ (analyzer.baseline = None /\ obs.angle = Deg(170)) => obs.status = "GOOD"
            /\ (analyzer.baseline = None /\ obs.angle = Deg(160)) => obs.status = "FAIR"
            /\ obs.angle = PostureAnalyzer_calculate_angle(pose[17], pose[11], pose[23])

\* a frame showing exactly 170 degrees was analyzed without a baseline
C22_Witness ==
    /\ obs.op = "analyze"
    /\ ~obs.raised
    /\ analyzer.baseline = None
    /\ obs.angle = Deg(170)
    /\ obs.status = "GOOD"

\* C23: with a baseline the classification uses good_angle - tolerance as the
\* good threshold and good_angle - 20 as the fair threshold, whatever the
\* tolerance of the baseline is.
C23_ToleranceThreshold ==
    (obs.op = "analyze" /\ ~obs.raised /\ analyzer.baseline # None) =>
        LET good == analyzer.baseline[1].good_angle - analyzer.baseline[1].tolerance
            fair == analyzer.baseline[1].good_angle - Deg(20)
        IN  obs.status = IF obs.angle >= good THEN "GOOD"
                         ELSE IF obs.angle >= fair THEN "FAIR" ELSE "BAD"

\* C24: when one of the three landmarks analyze reads is absent from the
\* collection, analyze returns (UNKNOWN, 0) and does not raise.
C24_MissingLandmarkUnknown ==
    (obs.op = "analyze" /\ ~({17, 11, 23} \subseteq DOMAIN pose)) =>
        (~obs.raised /\ obs.status = "UNKNOWN" /\ obs.angle = 0)

\* C25: the angle computed at the vertex lies in [0, 180]; it is the absolute
\* difference of the two atan2 directions, replaced by 360 minus itself when
\* above 180; it does not depend on the z of any point; swapping the two
\* outer points gives the same angle.
C25_AngleRange ==
    (obs.op = "analyze" /\ ~obs.raised) =>
        LET a == pose[17]
            b == pose[11]
            c == pose[23]
            diff == Abs(Atan2Deg(c.y - b.y, c.x - b.x) - Atan2Deg(a.y - b.y, a.x - b.x))
        IN  /\ obs.angle >= 0 /\ obs.angle <= Deg(180)
            /\ diff <= Deg(180) => obs.angle = diff
            /\ diff > Deg(180) => obs.angle = Deg(360) - diff
            /\ \A za, zb, zc \in CoordZ :
                  PostureAnalyzer_calculate_angle([a EXCEPT !.z = za], [b EXCEPT !.z = zb],
                                                  [c EXCEPT !.z = zc]) = obs.angle
            /\ PostureAnalyzer_calculate_angle(c, b, a) = obs.angle

\* an angle was computed whose directions differ by more than 180 degrees
C25_Witness ==
    /\ obs.op = "analyze"
    /\ ~obs.raised
    /\ Abs(Atan2Deg(pose[23].y - pose[11].y, pose[23].x - pose[11].x)
           - Atan2Deg(pose[17].y - pose[11].y, pose[17].x - pose[11].x)) > Deg(180)
    /\ obs.angle > 0

-----------------------------------------------------------------------------
(* calibrate_user, checked under SpecCalib *)

\* C26: when calibrate_user returns with fewer than 50 samples it returns
\* None and user_baseline.json is as it was before the call; when it returns
\* with 50 or more it returns and persists a baseline whose good_angle is the
\* mean of the samples (to the thousandth of a degree), whose tolerance is
\* 10, whose samples is the number of samples and whose min_angle and
\* max_angle bound every sample.
C26_CalibrationResult ==
    calib.pc = "done" =>
        LET n == calib.taken[Deg(170)] + calib.taken[Deg(176)]
            total == Deg(170) * calib.taken[Deg(170)] + Deg(176) * calib.taken[Deg(176)]
        IN  /\ n < 50 => (calib.result = None /\ calib.baseline_file = calib.prior_file)
            /\ n >= 50 =>
                 /\ calib.result # None
                 /\ calib.baseline_file = calib.result
                 /\ calib.result[1].good_angle * n <= total
                 /\ total < (calib.result[1].good_angle + 1) * n
                 /\ calib.result[1].tolerance = Deg(10)
                 /\ calib.result[1].samples = n
                 /\ \A a \in CalibAngles :
                      calib.taken[a] > 0 =>
                          (calib.result[1].min_angle <= a /\ a <= calib.result[1].max_angle)

\* a calibration over samples of both angles replaced an earlier baseline
C26_Witness ==
    /\ calib.pc = "done"
    /\ calib.result # None
    /\ calib.prior_file # None
    /\ calib.taken[Deg(170)] > 0
    /\ calib.taken[Deg(176)] > 0

-----------------------------------------------------------------------------
(* Start-up of main.py, checked under SpecLoop *)

\* C27: whatever user_baseline.json holds, load_baseline does not raise and
\* start-up does not fail because of it: a file that is absent, unreadable,
\* malformed or not a baseline record is treated as no baseline, and the
\* program goes on to open the camera.
C27_StartupSurvivesBaseline ==
    /\ run.pc # "crashed"
    /\ (obs.op = "initialize" /\ run.persisted.kind # "baseline") =>
            (run.pc = "setup" /\ run.baseline = None)

-----------------------------------------------------------------------------
(* AlertManager: repeated alerts within one spell of bad posture *)

\* C28: a firing alert leaves bad_start as it is, and a BAD check never moves
\* a bad_start that is set; so once an alert has fired in a spell of BAD
\* checks, a later BAD check fires when it is made ALERT_COOLDOWN or more
\* after last_alert, and fires only if the cooldown has passed: no new
\* BAD_DURATION has to build up.
C28_FiringKeepsBadStart ==
    [][(obs'.op = "alert" /\ obs'.status = "BAD") =>
          /\ alerts'.bad_start # None
          /\ alerts.bad_start # None => alerts'.bad_start = alerts.bad_start
          /\ (/\ alerts.bad_start # None
              /\ alerts.last_alert # None
              /\ alerts.last_alert[1] - alerts.bad_start[1] >= BAD_DURATION) =>
                 /\ obs'.t - alerts.last_alert[1] >= ALERT_COOLDOWN => obs'.fired
                 /\ obs'.fired => obs'.t_fire - alerts.last_alert[1] >= ALERT_COOLDOWN]_vars

\* a second alert has fired in the spell of bad posture of the one before it
C28_Witness ==
    /\ obs.op = "alert"
    /\ obs.fired
    /\ Len(hist.fires) >= 2
    /\ alerts.bad_start # None
    /\ hist.fires[Len(hist.fires) - 1] - alerts.bad_start[1] >= BAD_DURATION

-----------------------------------------------------------------------------
(* AlertManager and BreakReminder side by side, as main_loop holds them *)

TimerSteps == {1, BAD_DURATION, ALERT_COOLDOWN}
TimerBreakSteps == {1, BREAK_INTERVAL}

\* breaks.check() entered at clock t, with the history kept beside it
DoBreakCheck(t, d, ok) ==
    LET r == BreakReminder_check(breaks, t, d, ok)
    IN  /\ calls' = calls + 1
        /\ breaks' = r.br
        /\ now' = r.clock
        /\ notifier' = [notifier EXCEPT !.brk = @ + r.sent]
        /\ obs' = [NoObs EXCEPT !.op = "break", !.t = t, !.reminded = r.reminded,
                                !.outcome = r.outcome, !.raised = r.raised]
        /\ hist' = [hist EXCEPT
               !.reminders = IF r.reminded THEN Append(@, t) ELSE @]
        /\ UNCHANGED <<alerts, logger, files, run, mono, script, analyzer, pose, calib>>

\* alerts.check(status) on the object that lives beside a BreakReminder
TimerAlertCheck ==
    \E step \in TimerSteps, status \in {"BAD", "GOOD"} :
        /\ calls < MaxCalls
        /\ DoAlertCheck(status, now + step, NoJitter, TRUE)

\* breaks.check() on the object that lives beside an AlertManager
TimerBreakCheck ==
    \E step \in TimerBreakSteps, ok \in BOOLEAN :
        /\ calls < MaxCalls
        /\ DoBreakCheck(now + step, 0, ok)

NextTimers == TimerAlertCheck \/ TimerBreakCheck

SpecTimers == Init /\ [][NextTimers]_vars

\* C29: alert_count is the number of alerts fired so far and never goes
\* down, last_alert is None exactly when alert_count is 0; break_count is the
\* number of break reminders fired so far and last_break never goes down.
C29_CountersMatchHistory ==
    /\ [](/\ alerts.alert_count = Len(hist.fires)
          /\ (alerts.last_alert = None) <=> (alerts.alert_count = 0)
          /\ breaks.break_count = Len(hist.reminders))
    /\ [][/\ alerts'.alert_count >= alerts.alert_count
          /\ breaks'.last_break >= breaks.last_break]_vars

\* an alert and a break reminder have both fired
C29_Witness ==
    /\ alerts.alert_count >= 1
    /\ Len(hist.fires) >= 1
    /\ breaks.break_count >= 1
    /\ Len(hist.reminders) >= 1

-----------------------------------------------------------------------------
(* AlertManager: an unbroken run of BAD checks *)

\* seconds of the run that are followed
MaxRun == 1000

\* seconds between two checks of the run
BadSteps == {60, 100}
MaxBadStep == 100

\* alerts.check("BAD") once more, the clock having advanced
BadCheck ==
    \E step \in BadSteps :
        /\ now + step <= StartTime + MaxRun
        /\ DoAlertCheck("BAD", now + step, NoJitter, TRUE)

NextBad == BadCheck

\* the caller keeps calling check("BAD")
SpecBadRun == Init /\ [][NextBad]_vars /\ WF_vars(BadCheck)

\* C30: in a run of BAD checks with the clock advancing an alert comes to
\* fire; a check fires exactly when BAD_DURATION has passed since bad_start
\* and no alert was made less than ALERT_COOLDOWN before it, so the first such
\* check fires; and after every alert another one follows, as long as the
\* run goes on for a cooldown and two more checks.
C30_BadRunAlerts ==
    /\ <>(alerts.alert_count >= 1)
    /\ [][obs'.op = "alert" =>
            LET bs == IF alerts.bad_start = None THEN obs'.t ELSE alerts.bad_start[1]
            IN  obs'.fired <=>
                   /\ obs'.t - bs >= BAD_DURATION
                   /\ \/ alerts.last_alert = None
                      \/ obs'.t - alerts.last_alert[1] >= ALERT_COOLDOWN]_vars
    /\ \A k \in 0..(MaxRun \div BAD_DURATION) :
          (/\ alerts.alert_count = k
           /\ now + ALERT_COOLDOWN + 2 * MaxBadStep <= StartTime + MaxRun)
             ~> (alerts.alert_count > k)

\* a second alert of the run has fired, bad_start still that of the first check
C30_Witness ==
    /\ obs.op = "alert"
    /\ obs.fired
    /\ alerts.alert_count >= 2
    /\ hist.nonbad_at = StartTime
    /\ alerts.bad_start = hist.first_bad
    /\ hist.fires[2] - hist.fires[1] >= ALERT_COOLDOWN

-----------------------------------------------------------------------------
(* calibrate_user: the end of the observation loop *)

\* the clock moves on while calibrate_user runs, and the function goes on
\* after its loop
SpecCalibFair ==
    /\ InitCalib
    /\ [][NextCalib]_vars
    /\ WF_vars(CalibFrame /\ now' > now)
    /\ WF_vars(CalibFinish)

\* C31: the observation loop of calibrate_user comes to an end; the first
\* evaluation of its condition made duration seconds or more after the start
\* leaves it, whatever the camera gives, and a cancel leaves it earlier; and
\* when calibrate_user returns, a baseline was computed, written to the
\* calibration file and returned exactly when 50 or more samples had been
\* collected, after a cancel as after the time ran out.
C31_CalibrationLoopEnds ==
    /\ (calib.pc = "loop") ~> (calib.pc # "loop")
    /\ [][(calib.pc = "loop" /\ now' - calib.start_time >= calib.duration) =>
             (calib'.pc = "finish" /\ obs'.exit = "timeout")]_vars
    /\ [][(calib.pc = "loop" /\ calib'.pc = "finish") =>
             (obs'.exit \in {"timeout", "quit"} /\ calib'.samples - calib.samples \in {0, 1})]_vars
    /\ []((obs.op = "calib_finish" /\ calib.pc = "done") =>
             /\ obs.exit \in {"timeout", "quit"}
             /\ (calib.result # None) <=> (calib.samples >= MIN_SAMPLES)
             /\ calib.result # None =>
                    /\ calib.result = Some(calibrate_baseline(calib))
                    /\ calib.baseline_file = calib.result
             /\ calib.result = None => calib.baseline_file = calib.prior_file)

\* a cancelled calibration with 50 samples or more has written and returned
\* its baseline
C31_Witness ==
    /\ obs.op = "calib_finish"
    /\ obs.exit = "quit"
    /\ calib.pc = "done"
    /\ calib.samples >= MIN_SAMPLES
    /\ calib.result # None
    /\ calib.baseline_file = calib.result

====
